---- MODULE Spec2Model ----
(***************************************************************************)
(* Model of backend/app/services/research/temporal_cache.py:               *)
(*   DependencyGraph, TemporalCache and SparseInferenceEngine.             *)
(*                                                                         *)
(* A cache key f"frame_{i}" is modelled by the decimal digits of i (the    *)
(* constant prefix "frame_" is left out); Python's string order on keys is *)
(* the lexicographic order on these digit sequences.                       *)
(* A tensor is a record [nelement, data, base]: data names its contents,   *)
(* base = 0 when it owns its storage and base = c when it is a view of the *)
(* audio buffer allocated by engine call number c.                         *)
(* The dict self.cache is a sequence of entries in insertion order.        *)
(***************************************************************************)
EXTENDS Integers, Sequences, FiniteSets, TLC

VARIABLES
    \* TemporalCache
    max_size_bytes, eviction_policy, cache, current_size_bytes,
    hits, misses, evictions,
    \* DependencyGraph
    graph, reverse_graph,
    \* SparseInferenceEngine
    frame_size, current_audio, current_length_frames,
    \* environment: the last value time.time() returned, the number of engine calls
    now, calls,
    \* the last call: its name, arguments and outcome
    ret,
    \* two engines side by side: the objects allocated (each DependencyGraph and
    \* TemporalCache is one object, named by its position) and the engines' fields
    heap, engines

vars == <<max_size_bytes, eviction_policy, cache, current_size_bytes, hits, misses,
          evictions, graph, reverse_graph, frame_size, current_audio,
          current_length_frames, now, calls, ret, heap, engines>>

cacheVars == <<max_size_bytes, eviction_policy, cache, current_size_bytes, hits,
               misses, evictions>>
graphVars == <<graph, reverse_graph>>
engineVars == <<frame_size, current_audio, current_length_frames, calls>>
objectVars == <<heap, engines>>

(***************************************************************************)
(* Bounds of the model.                                                    *)
(***************************************************************************)
\* TemporalCache on its own: at most MaxOps calls.
MaxOps == 4
\* SparseInferenceEngine: at most MaxCalls calls of generate_full / apply_edit.
MaxCalls == 3
\* The eviction loop of one put, followed step by step: at most MaxIterations
\* iterations are followed.
MaxIterations == 4

\* torch.randn yields float32 tensors: element_size() is 4 bytes.
ElementSize == 4

\* time.time() is the wall clock at the platform's resolution: two reads close
\* together may return the same value (advance 0) or a later one (advance 1).
ClockSteps == {0, 1}

None == "None"

(***************************************************************************)
(* Keys: f"frame_{i}", int(frame_id.split('_')[1]) and string comparison.  *)
(***************************************************************************)
RECURSIVE Digits(_)
Digits(n) == IF n < 10 THEN <<n>> ELSE Append(Digits(n \div 10), n % 10)

frame_id(i) == Digits(i)

RECURSIVE DigitsValue(_)
DigitsValue(s) ==
    IF Len(s) = 0 THEN 0
    ELSE 10 * DigitsValue(SubSeq(s, 1, Len(s) - 1)) + s[Len(s)]

frame_idx(key) == DigitsValue(key)

\* Python str "<": the first differing character decides, a proper prefix is smaller.
RECURSIVE StrLess(_, _)
StrLess(s, t) ==
    IF Len(s) = 0 THEN Len(t) > 0
    ELSE IF Len(t) = 0 THEN FALSE
    ELSE IF s[1] # t[1] THEN s[1] < t[1]
    ELSE StrLess(Tail(s), Tail(t))

\* sorted(S) for a set of keys: ascending string order.
RECURSIVE SortedKeys(_)
SortedKeys(S) ==
    IF S = {} THEN <<>>
    ELSE LET m == CHOOSE x \in S : \A y \in S \ {x} : StrLess(x, y)
         IN <<m>> \o SortedKeys(S \ {m})

(***************************************************************************)
(* TemporalCache.  The operators work on a record                          *)
(*   [cache, current_size_bytes, hits, misses, evictions, now]             *)
(* so that the engine can chain them inside one call.                      *)
(***************************************************************************)
CacheKeysOf(c) == {c[i].key : i \in 1..Len(c)}

HasKey(c, key) == \E i \in 1..Len(c) : c[i].key = key

IndexOf(c, key) == CHOOSE i \in 1..Len(c) : c[i].key = key

EntryOf(c, key) == c[IndexOf(c, key)]

\* self.cache[key] = entry: a present key keeps its place, a new key goes last.
DictSet(c, entry) ==
    IF HasKey(c, entry.key)
    THEN [c EXCEPT ![IndexOf(c, entry.key)] = entry]
    ELSE Append(c, entry)

\* del self.cache[key]
DictDel(c, key) == SelectSeq(c, LAMBDA e : e.key # key)

\* sum(entry.size_bytes for entry in cache.values())
RECURSIVE SumSizes(_)
SumSizes(c) == IF Len(c) = 0 THEN 0 ELSE c[1].size_bytes + SumSizes(Tail(c))

\* min(self.cache.keys(), key=lambda k: self.cache[k].timestamp):
\* the first key, in dict order, whose timestamp is minimal.
lru_key(c) ==
    LET i == CHOOSE j \in 1..Len(c) :
                 /\ \A k \in 1..Len(c) : c[j].timestamp <= c[k].timestamp
                 /\ \A k \in 1..(j - 1) : c[k].timestamp > c[j].timestamp
    IN c[i].key

\* Mutant of lfu_key: the first key in dict order, whatever its hit_count.
lfu_key_first(c) == c[1].key

\* min(self.cache.keys(), key=lambda k: self.cache[k].hit_count)
lfu_key(c) ==
    LET i == CHOOSE j \in 1..Len(c) :
                 /\ \A k \in 1..Len(c) : c[j].hit_count <= c[k].hit_count
                 /\ \A k \in 1..(j - 1) : c[k].hit_count > c[j].hit_count
    IN c[i].key

EvictKey(st, key) ==
    [st EXCEPT !.current_size_bytes = @ - EntryOf(st.cache, key).size_bytes,
               !.cache = DictDel(@, key),
               !.evictions = @ + 1]

_evict_one(st, policy) ==
    IF policy = "lru" THEN EvictKey(st, lru_key(st.cache))
    ELSE IF policy = "lfu" THEN EvictKey(st, lfu_key(st.cache))
    ELSE st

\* Mutant of the loop of put: "if" in place of "while", at most one eviction.
EvictOnce(st, size_bytes, maxb, policy) ==
    IF st.current_size_bytes + size_bytes > maxb
    THEN IF Len(st.cache) = 0
         THEN [fits |-> FALSE, st |-> st]
         ELSE [fits |-> TRUE, st |-> _evict_one(st, policy)]
    ELSE [fits |-> TRUE, st |-> st]

\* The while loop of put: [fits |-> whether the store follows, st |-> the state].
RECURSIVE EvictLoop(_, _, _, _)
EvictLoop(st, size_bytes, maxb, policy) ==
    IF st.current_size_bytes + size_bytes > maxb
    THEN IF Len(st.cache) = 0
         THEN [fits |-> FALSE, st |-> st]
         ELSE EvictLoop(_evict_one(st, policy), size_bytes, maxb, policy)
    ELSE [fits |-> TRUE, st |-> st]

SizeOf(activations) == ElementSize * activations.nelement

\* put(key, activations, dependencies); d is the clock's advance at time.time().
TCput(st, key, activations, dependencies, maxb, policy, d) ==
    LET size_bytes == SizeOf(activations)
        r == EvictLoop(st, size_bytes, maxb, policy)
        t == r.st.now + d
        entry == [key |-> key, timestamp |-> t, activations |-> activations,
                  dependencies |-> dependencies, hit_count |-> 0,
                  size_bytes |-> size_bytes]
    IN IF ~r.fits THEN r.st
       ELSE [r.st EXCEPT !.cache = DictSet(@, entry),
                         !.current_size_bytes = @ + size_bytes,
                         !.now = t]

\* Mutant of get: the two counters swapped on a miss.
TCgetMissCountsAsHit(st, key, d) ==
    IF HasKey(st.cache, key)
    THEN LET i == IndexOf(st.cache, key)
             t == st.now + d
         IN [st |-> [st EXCEPT !.hits = @ + 1,
                               !.cache[i].hit_count = @ + 1,
                               !.cache[i].timestamp = t,
                               !.now = t],
             hit |-> TRUE,
             val |-> st.cache[i].activations]
    ELSE [st |-> [st EXCEPT !.hits = @ + 1], hit |-> FALSE, val |-> None]

\* get(key): [st |-> the state after, hit |-> whether the key was found,
\* val |-> the activations returned (None on a miss)].
TCget(st, key, d) ==
    IF HasKey(st.cache, key)
    THEN LET i == IndexOf(st.cache, key)
             t == st.now + d
         IN [st |-> [st EXCEPT !.hits = @ + 1,
                               !.cache[i].hit_count = @ + 1,
                               !.cache[i].timestamp = t,
                               !.now = t],
             hit |-> TRUE,
             val |-> st.cache[i].activations]
    ELSE [st |-> [st EXCEPT !.misses = @ + 1], hit |-> FALSE, val |-> None]

\* Mutant of invalidate: the size is subtracted but the entry is not deleted.
RECURSIVE TCinvalidateKeepsEntry(_, _)
TCinvalidateKeepsEntry(st, keys) ==
    IF keys = {} THEN st
    ELSE LET key == CHOOSE k \in keys : TRUE
             st1 == IF HasKey(st.cache, key)
                    THEN [st EXCEPT
                            !.current_size_bytes =
                                @ - EntryOf(st.cache, key).size_bytes]
                    ELSE st
         IN TCinvalidateKeepsEntry(st1, keys \ {key})

\* invalidate(keys)
RECURSIVE TCinvalidate(_, _)
TCinvalidate(st, keys) ==
    IF keys = {} THEN st
    ELSE LET key == CHOOSE k \in keys : TRUE
             st1 == IF HasKey(st.cache, key)
                    THEN [st EXCEPT
                            !.current_size_bytes =
                                @ - EntryOf(st.cache, key).size_bytes,
                            !.cache = DictDel(@, key)]
                    ELSE st
         IN TCinvalidate(st1, keys \ {key})

\* Mutant of clear: the statistics are reset with the contents.
TCclearResetsCounters(st) ==
    [st EXCEPT !.cache = <<>>, !.current_size_bytes = 0, !.hits = 0, !.misses = 0,
               !.evictions = 0]

\* clear()
TCclear(st) == [st EXCEPT !.cache = <<>>, !.current_size_bytes = 0]

\* get_stats(): a quotient x / y is kept as the pair <<x, y>>, and 0.0 as <<0, 1>>.
get_stats(st, maxb) ==
    LET total_requests == st.hits + st.misses
    IN [hits |-> st.hits,
        misses |-> st.misses,
        hit_rate |-> IF total_requests > 0 THEN <<st.hits, total_requests>>
                     ELSE <<0, 1>>,
        evictions |-> st.evictions,
        current_size_bytes |-> st.current_size_bytes,
        max_size_bytes |-> maxb,
        utilization |-> <<st.current_size_bytes, maxb>>,
        num_entries |-> Len(st.cache)]

\* The cache object as a record, and its write-back.
TC == [cache |-> cache, current_size_bytes |-> current_size_bytes, hits |-> hits,
       misses |-> misses, evictions |-> evictions, now |-> now]

SetTC(st) ==
    /\ cache' = st.cache
    /\ current_size_bytes' = st.current_size_bytes
    /\ hits' = st.hits
    /\ misses' = st.misses
    /\ evictions' = st.evictions
    /\ now' = st.now

(***************************************************************************)
(* DependencyGraph.  graph and reverse_graph are dicts node -> set: the     *)
(* operators work on a record [graph, reverse_graph].                      *)
(***************************************************************************)
EmptyDict == [k \in {} |-> {}]

\* d.get(key, set())
DictGet(d, key) == IF key \in DOMAIN d THEN d[key] ELSE {}

\* Mutant of the lookup below: d[key] on a defaultdict(set) creates a missing key.
DictAfterIndex(d, key) == [k \in DOMAIN d \cup {key} |-> DictGet(d, k)]

\* The dict after d.get(key, set()): a lookup with get creates no key.
DictAfterGet(d, key) == d

\* The dict after d.get(key, set()) for each key of a sequence.
RECURSIVE DictAfterGets(_, _)
DictAfterGets(d, keys) ==
    IF Len(keys) = 0 THEN d
    ELSE DictAfterGets(DictAfterGet(d, keys[1]), Tail(keys))

\* d[key].add(x) on a defaultdict(set)
DictAdd(d, key, x) ==
    [k \in DOMAIN d \cup {key} |-> IF k = key THEN DictGet(d, key) \cup {x} ELSE d[k]]

\* Mutant of add_dependency: the reverse map is not updated.
add_dependency_forward_only(g, node_id, depends_on) ==
    [graph |-> DictAdd(g.graph, node_id, depends_on),
     reverse_graph |-> g.reverse_graph]

add_dependency(g, node_id, depends_on) ==
    [graph |-> DictAdd(g.graph, node_id, depends_on),
     reverse_graph |-> DictAdd(g.reverse_graph, depends_on, node_id)]

get_dependencies(g, node_id) == DictGet(g.graph, node_id)

\* Mutant of get_dependents: the forward map is read, so changes spread upstream.
get_dependents_forward(g, node_id) == DictGet(g.graph, node_id)

get_dependents(g, node_id) == DictGet(g.reverse_graph, node_id)

\* Mutant of the round below: a new dependent is appended to the queue twice.
RECURSIVE VisitDependentsTwice(_, _, _)
VisitDependentsTwice(todo, affected, queue) ==
    IF Len(todo) = 0 THEN [affected |-> affected, queue |-> queue]
    ELSE IF todo[1] \notin affected
         THEN VisitDependentsTwice(Tail(todo), affected \cup {todo[1]},
                                   Append(Append(queue, todo[1]), todo[1]))
         ELSE VisitDependentsTwice(Tail(todo), affected, queue)

\* Mutant of the round below: new dependents are added to affected but not queued.
RECURSIVE VisitDependentsNoQueue(_, _, _)
VisitDependentsNoQueue(todo, affected, queue) ==
    IF Len(todo) = 0 THEN [affected |-> affected, queue |-> queue]
    ELSE VisitDependentsNoQueue(Tail(todo), affected \cup {todo[1]}, queue)

\* One round of "for dependent in dependents": the dependents not yet in affected
\* are added to it and appended to the queue, in iteration order.
RECURSIVE VisitDependents(_, _, _)
VisitDependents(todo, affected, queue) ==
    IF Len(todo) = 0 THEN [affected |-> affected, queue |-> queue]
    ELSE IF todo[1] \notin affected
         THEN VisitDependents(Tail(todo), affected \cup {todo[1]},
                              Append(queue, todo[1]))
         ELSE VisitDependents(Tail(todo), affected, queue)

\* The while loop of get_affected_nodes; popped lists the nodes taken off the queue.
RECURSIVE BfsLoop(_, _, _, _)
BfsLoop(g, affected, queue, popped) ==
    IF Len(queue) = 0 THEN [affected |-> affected, popped |-> popped]
    ELSE LET node == Head(queue)
             r == VisitDependents(SortedKeys(get_dependents(g, node)), affected,
                                  Tail(queue))
         IN BfsLoop(g, r.affected, r.queue, Append(popped, node))

\* get_affected_nodes(changed_nodes).  A set is iterated in some order; the order
\* taken here is the sorted one, and the set returned does not depend on it.
get_affected_nodes(g, changed_nodes) ==
    BfsLoop(g, changed_nodes, SortedKeys(changed_nodes), <<>>).affected

G == [graph |-> graph, reverse_graph |-> reverse_graph]

SetG(g) ==
    /\ graph' = g.graph
    /\ reverse_graph' = g.reverse_graph

(***************************************************************************)
(* SparseInferenceEngine.  The audio buffer is a record                    *)
(*   [id, num_samples, frames]: id is the number of the call that          *)
(* allocated it (0: None), frames[i + 1] names the contents of the whole   *)
(* frame i, and the num_samples % frame_size samples behind the last whole *)
(* frame are never written after the allocation.  Contents are named by    *)
(* [call, frame]: torch.randn returns fresh samples on every call.         *)
(***************************************************************************)
NoAudio == [id |-> 0, num_samples |-> 0, frames |-> <<>>]

IsNone(audio) == audio.id = 0

\* int(x / y) for integers x and y > 0: true division, then truncation toward zero.
IntDiv(x, y) == IF x >= 0 THEN x \div y ELSE -((-x) \div y)

\* int(duration_seconds * sample_rate), the duration given in tenths of a second.
NumSamples(duration_tenths, sample_rate) == IntDiv(duration_tenths * sample_rate, 10)

\* Mutant of the frame count: rounded up, the partial last frame counted.
NumFramesCeil(num_samples, fs) == (num_samples + fs - 1) \div fs

\* num_samples // self.frame_size
NumFrames(num_samples, fs) == num_samples \div fs

\* The engine state threaded through a call.
E == [tc |-> TC, g |-> G, audio |-> current_audio, frames |-> current_length_frames]

\* The body of the loop of generate_full for frame i.
GenFrame(e, i, call, fs, maxb, policy, d) ==
    LET frame_audio == [nelement |-> fs, data |-> [call |-> call, frame |-> i],
                        base |-> call]
        dependencies == IF i > 0 THEN {frame_id(i - 1)} ELSE {}
        g1 == IF i > 0 THEN add_dependency(e.g, frame_id(i), frame_id(i - 1)) ELSE e.g
    IN [e EXCEPT !.g = g1,
                 !.tc = TCput(e.tc, frame_id(i), frame_audio, dependencies, maxb,
                              policy, d)]

RECURSIVE GenLoop(_, _, _, _, _, _, _, _)
GenLoop(e, i, num_frames, call, fs, maxb, policy, d) ==
    IF i >= num_frames THEN e
    ELSE GenLoop(GenFrame(e, i, call, fs, maxb, policy, d), i + 1, num_frames, call,
                 fs, maxb, policy, d)

\* generate_full(prompt, duration_seconds, sample_rate); the clock is read at the
\* start, in every put and at the end.
generate_full(e, duration_tenths, sample_rate, call, fs, maxb, policy, d) ==
    LET num_samples == NumSamples(duration_tenths, sample_rate)
        num_frames == NumFrames(num_samples, fs)
        audio == [id |-> call, num_samples |-> num_samples,
                  frames |-> [i \in 1..num_frames |-> [call |-> call, frame |-> i - 1]]]
        e0 == [e EXCEPT !.tc.now = @ + d]
        e1 == GenLoop(e0, 0, num_frames, call, fs, maxb, policy, d)
    IN [e1 EXCEPT !.audio = audio, !.frames = num_frames, !.tc.now = @ + d]

\* all(self.cache.get(dep) is not None for dep in dependencies): the gets run in
\* iteration order and stop at the first miss.
RECURSIVE AllDepsCached(_, _, _)
AllDepsCached(st, deps, d) ==
    IF Len(deps) = 0 THEN [st |-> st, all |-> TRUE]
    ELSE LET r == TCget(st, deps[1], d)
         IN IF r.hit THEN AllDepsCached(r.st, Tail(deps), d)
            ELSE [st |-> r.st, all |-> FALSE]

\* self.current_audio[:, frame_start:frame_end] = frame_audio: the number of samples
\* the slice holds.
SliceLen(audio, frame_start, frame_end) ==
    LET lo == IF frame_start < audio.num_samples THEN frame_start ELSE audio.num_samples
        hi == IF frame_end < audio.num_samples THEN frame_end ELSE audio.num_samples
    IN hi - lo

\* The loop of apply_edit over todo = sorted(affected_frames).  order lists the frame
\* indices recomputed and put in the cache; outcome is "ok" or the exception that
\* ended the call.  failing holds the frame indices at which the generation step
\* (torch.randn here, a model forward pass in its place) raises: the exception
\* leaves the loop after the dependency lookups and before the put.
RECURSIVE EditLoop(_, _, _, _, _, _, _, _, _)
EditLoop(e, todo, order, call, fs, maxb, policy, d, failing) ==
    IF Len(todo) = 0 THEN [e |-> e, order |-> order, outcome |-> "ok"]
    ELSE LET frame_key == todo[1]
             idx == frame_idx(frame_key)
             dependencies == get_dependencies(e.g, frame_key)
             g1 == [e.g EXCEPT !.graph = DictAfterGet(@, frame_key)]
             a == AllDepsCached(e.tc, SortedKeys(dependencies), d)
             frame_audio == [nelement |-> fs, data |-> [call |-> call, frame |-> idx],
                             base |-> 0]
             tc1 == TCput(a.st, frame_key, frame_audio, dependencies, maxb, policy, d)
             e1 == [e EXCEPT !.tc = tc1, !.g = g1]
             frame_start == idx * fs
             frame_end == (idx + 1) * fs
         IN IF idx \in failing
            THEN [e |-> [e EXCEPT !.tc = a.st, !.g = g1], order |-> order,
                  outcome |-> "GenerationError"]
            ELSE IF IsNone(e.audio)
            THEN [e |-> e1, order |-> Append(order, idx), outcome |-> "TypeError"]
            ELSE IF SliceLen(e.audio, frame_start, frame_end) # fs
            THEN [e |-> e1, order |-> Append(order, idx), outcome |-> "RuntimeError"]
            ELSE EditLoop([e1 EXCEPT !.audio.frames[idx + 1] = frame_audio.data],
                          Tail(todo), Append(order, idx), call, fs, maxb, policy, d,
                          failing)

\* Mutant of the changed set: range(start_frame, end_frame), the end left out.
ChangedFramesExclusive(start_frame, end_frame) ==
    {frame_id(i) : i \in start_frame..(end_frame - 1)}

\* {f"frame_{i}" for i in range(start_frame, end_frame + 1)}
ChangedFrames(start_frame, end_frame) ==
    {frame_id(i) : i \in start_frame..end_frame}

\* apply_edit(edit) for edit.affected_region = (region_start, region_end).
apply_edit(e, region_start, region_end, call, fs, maxb, policy, d, failing) ==
    LET start_frame == IntDiv(region_start, fs)
        end_frame == IntDiv(region_end, fs)
        changed_frames == ChangedFrames(start_frame, end_frame)
        affected_frames == get_affected_nodes(e.g, changed_frames)
        looked_up == BfsLoop(e.g, changed_frames, SortedKeys(changed_frames),
                             <<>>).popped
        e0 == [e EXCEPT !.tc.now = @ + d,
                        !.g.reverse_graph = DictAfterGets(@, looked_up)]
        e1 == [e0 EXCEPT !.tc = TCinvalidate(@, affected_frames)]
        r == EditLoop(e1, SortedKeys(affected_frames), <<>>, call, fs, maxb, policy, d,
                      failing)
        info == [op |-> "apply_edit", region |-> <<region_start, region_end>>,
                 start_frame |-> start_frame, end_frame |-> end_frame,
                 changed_frames |-> changed_frames,
                 affected_frames |-> affected_frames, order |-> r.order]
        metrics == [frames_recomputed |-> Cardinality(affected_frames),
                    frames_total |-> e.frames,
                    recompute_ratio |-> <<Cardinality(affected_frames), e.frames>>]
    IN IF r.outcome # "ok"
       THEN [e |-> r.e, ret |-> info @@ [outcome |-> r.outcome]]
       ELSE IF e.frames = 0
       THEN [e |-> [r.e EXCEPT !.tc.now = @ + d],
             ret |-> info @@ [outcome |-> "ZeroDivisionError"]]
       ELSE [e |-> [r.e EXCEPT !.tc.now = @ + d],
             ret |-> info @@ [outcome |-> "ok", metrics |-> metrics]]

SetE(e) ==
    /\ SetTC(e.tc)
    /\ SetG(e.g)
    /\ current_audio' = e.audio
    /\ current_length_frames' = e.frames

(***************************************************************************)
(* The state after construction.                                           *)
(***************************************************************************)
\* TemporalCache.__init__, given max_size_bytes = int(max_size_mb * 1024 * 1024)
TemporalCacheInit(maxb, policy) ==
    /\ max_size_bytes = maxb
    /\ eviction_policy = policy
    /\ cache = <<>>
    /\ current_size_bytes = 0
    /\ hits = 0
    /\ misses = 0
    /\ evictions = 0

\* DependencyGraph.__init__
DependencyGraphInit ==
    /\ graph = EmptyDict
    /\ reverse_graph = EmptyDict

\* SparseInferenceEngine.__init__ (its own graph and cache are set up beside it)
EngineFieldsInit(fs) ==
    /\ frame_size = fs
    /\ current_audio = NoAudio
    /\ current_length_frames = 0

NoCall == [op |-> "init"]

\* One engine, one cache or one graph alone: no objects side by side.
NoObjects ==
    /\ heap = <<>>
    /\ engines = <<>>

(***************************************************************************)
(* TemporalCache on its own: any caller, any order of calls.               *)
(***************************************************************************)
CacheCapacities == {8, 12}
CachePolicies == {"lru", "lfu"}
CacheKeys == {frame_id(0), frame_id(1), frame_id(2)}
\* Tensors handed to put: 1, 2 or 4 float32 elements (4, 8 or 16 bytes).
CacheTensors ==
    {[nelement |-> 1, data |-> "x", base |-> 0], [nelement |-> 1, data |-> "y", base |-> 0],
     [nelement |-> 2, data |-> "x", base |-> 0], [nelement |-> 4, data |-> "x", base |-> 0]}
\* put stores the dependency set as given and nothing in the cache reads it.
CacheDeps == {{}}

CacheInit ==
    /\ \E maxb \in CacheCapacities, policy \in CachePolicies :
           TemporalCacheInit(maxb, policy)
    /\ DependencyGraphInit
    /\ EngineFieldsInit(2)
    /\ now = 0
    /\ calls = 0
    /\ ret = NoCall
    /\ NoObjects

Put ==
    /\ calls < MaxOps
    /\ \E key \in CacheKeys, activations \in CacheTensors, dependencies \in CacheDeps,
          d \in ClockSteps :
          LET st == TCput(TC, key, activations, dependencies, max_size_bytes,
                          eviction_policy, d)
          IN /\ SetTC(st)
             /\ ret' = [op |-> "put", key |-> key, activations |-> activations,
                        size_bytes |-> SizeOf(activations),
                        present |-> HasKey(cache, key),
                        stored |-> EvictLoop(TC, SizeOf(activations), max_size_bytes,
                                             eviction_policy).fits,
                        evicted |-> st.evictions - evictions]
    /\ calls' = calls + 1
    /\ UNCHANGED <<objectVars, max_size_bytes, eviction_policy, graphVars, frame_size,
                   current_audio, current_length_frames>>

Get ==
    /\ calls < MaxOps
    /\ \E key \in CacheKeys, d \in ClockSteps :
          LET r == TCget(TC, key, d)
          IN /\ SetTC(r.st)
             /\ ret' = [op |-> "get", key |-> key, hit |-> r.hit, val |-> r.val]
    /\ calls' = calls + 1
    /\ UNCHANGED <<objectVars, max_size_bytes, eviction_policy, graphVars, frame_size,
                   current_audio, current_length_frames>>

Invalidate ==
    /\ calls < MaxOps
    /\ \E keys \in SUBSET CacheKeys :
          /\ SetTC(TCinvalidate(TC, keys))
          /\ ret' = [op |-> "invalidate", keys |-> keys,
                     removed |-> Len(cache) - Len(TCinvalidate(TC, keys).cache),
                     again |-> ret.op = "invalidate" /\ ret.keys = keys,
                     before |-> IF ret.op = "invalidate" /\ ret.keys = keys
                                THEN ret.removed ELSE 0]
    /\ calls' = calls + 1
    /\ UNCHANGED <<objectVars, max_size_bytes, eviction_policy, graphVars, frame_size,
                   current_audio, current_length_frames>>

Clear ==
    /\ calls < MaxOps
    /\ SetTC(TCclear(TC))
    /\ ret' = [op |-> "clear", dropped |-> Len(cache)]
    /\ calls' = calls + 1
    /\ UNCHANGED <<objectVars, max_size_bytes, eviction_policy, graphVars, frame_size,
                   current_audio, current_length_frames>>

GetStats ==
    /\ calls < MaxOps
    /\ ret' = [op |-> "get_stats", stats |-> get_stats(TC, max_size_bytes)]
    /\ calls' = calls + 1
    /\ UNCHANGED <<objectVars, cacheVars, now, graphVars, frame_size, current_audio,
                   current_length_frames>>

CacheNext == Put \/ Get \/ Invalidate \/ Clear \/ GetStats

CacheSpec == CacheInit /\ [][CacheNext]_vars

(***************************************************************************)
(* SparseInferenceEngine: one engine, its calls one after the other.       *)
(***************************************************************************)
EngineFrameSizes == {2}
\* max_size_bytes of the engine's cache: less than one frame, three frames, all frames.
EngineCapacities == {4, 24, 200}
\* generate_full: 1.0 s, 4.1 s and 5.0 s at 5 samples per second
\* (5, 20 and 25 samples: 2, 10 and 12 frames of 2 samples).
Generations ==
    {[duration_tenths |-> 10, sample_rate |-> 5],
     [duration_tenths |-> 41, sample_rate |-> 5],
     [duration_tenths |-> 50, sample_rate |-> 5]}
\* affected_region of an edit, in sample indices.
EditRegions ==
    {<<0, 1>>, <<3, 3>>, <<6, 9>>, <<17, 17>>, <<16, 24>>, <<16, 30>>, <<3, 0>>}

Init ==
    /\ \E maxb \in EngineCapacities : TemporalCacheInit(maxb, "lru")
    /\ DependencyGraphInit
    /\ \E fs \in EngineFrameSizes : EngineFieldsInit(fs)
    /\ now = 0
    /\ calls = 0
    /\ ret = NoCall
    /\ NoObjects

GenerateFull ==
    /\ calls < MaxCalls
    /\ \E gen \in Generations, d \in ClockSteps :
          LET e == generate_full(E, gen.duration_tenths, gen.sample_rate, calls + 1,
                                 frame_size, max_size_bytes, eviction_policy, d)
          IN /\ SetE(e)
             /\ ret' = [op |-> "generate_full", outcome |-> "ok",
                        num_samples |-> e.audio.num_samples,
                        first |-> IsNone(current_audio)]
    /\ calls' = calls + 1
    /\ UNCHANGED <<objectVars, max_size_bytes, eviction_policy, frame_size>>

ApplyEdit ==
    /\ calls < MaxCalls
    /\ \E region \in EditRegions, d \in ClockSteps :
          LET r == apply_edit(E, region[1], region[2], calls + 1, frame_size,
                              max_size_bytes, eviction_policy, d, {})
          IN /\ SetE(r.e)
             /\ ret' = r.ret
    /\ calls' = calls + 1
    /\ UNCHANGED <<objectVars, max_size_bytes, eviction_policy, frame_size>>

Next == GenerateFull \/ ApplyEdit

Spec == Init /\ [][Next]_vars

(***************************************************************************)
(* The engine with a generation step that can fail: apply_edit has no      *)
(* try/except, so an exception raised while frame k is being recomputed    *)
(* leaves the call with the state the loop had reached.                    *)
(***************************************************************************)
\* Regions of the failing edits: frame 1 (and all behind it) and frame 8 (and all
\* behind it).
FailRegions == {<<3, 3>>, <<17, 17>>}

ApplyEditFailing ==
    /\ calls < MaxCalls
    /\ \E region \in FailRegions, d \in ClockSteps :
          \E k \in {frame_idx(f) : f \in get_affected_nodes(G,
                                         ChangedFrames(IntDiv(region[1], frame_size),
                                                       IntDiv(region[2], frame_size)))} :
             LET r == apply_edit(E, region[1], region[2], calls + 1, frame_size,
                                 max_size_bytes, eviction_policy, d, {k})
             IN /\ SetE(r.e)
                /\ ret' = r.ret @@ [failed_at |-> k, audio_before |-> current_audio]
    /\ calls' = calls + 1
    /\ UNCHANGED <<objectVars, max_size_bytes, eviction_policy, frame_size>>

FailNext == GenerateFull \/ ApplyEdit \/ ApplyEditFailing

FailSpec == Init /\ [][FailNext]_vars

(***************************************************************************)
(* Two engines A and B, constructed one after the other and called in any  *)
(* order.  heap holds the DependencyGraph and TemporalCache objects the    *)
(* constructors allocated; an engine holds references (positions in heap)  *)
(* to its graph and its cache.  The variables of the single engine above   *)
(* follow B's calls only: they are engine B as it is when A does not       *)
(* exist.  The wall clock and the numbering of the calls are shared.       *)
(***************************************************************************)
EngineNames == {"A", "B"}

\* DependencyGraph()
GraphObject ==
    [kind |-> "DependencyGraph", graph |-> EmptyDict, reverse_graph |-> EmptyDict]

\* TemporalCache(max_size_mb=cache_size_mb)
CacheObject(maxb) ==
    [kind |-> "TemporalCache", max_size_bytes |-> maxb, eviction_policy |-> "lru",
     cache |-> <<>>, current_size_bytes |-> 0, hits |-> 0, misses |-> 0,
     evictions |-> 0]

\* Mutant of the constructor: the cache is one object for all engines (as a class
\* attribute or a default argument would be), allocated by the first of them.
NewEngineSharingCache(h, maxb, fs) ==
    LET caches == {i \in 1..Len(h) : h[i].kind = "TemporalCache"}
    IN IF caches = {}
       THEN [heap |-> h \o <<GraphObject, CacheObject(maxb)>>,
             engine |-> [dependency_graph |-> Len(h) + 1, cache |-> Len(h) + 2,
                         frame_size |-> fs, current_audio |-> NoAudio,
                         current_length_frames |-> 0]]
       ELSE [heap |-> Append(h, GraphObject),
             engine |-> [dependency_graph |-> Len(h) + 1,
                         cache |-> CHOOSE i \in caches : TRUE,
                         frame_size |-> fs, current_audio |-> NoAudio,
                         current_length_frames |-> 0]]

\* SparseInferenceEngine.__init__: a new graph and a new cache for every engine.
NewEngine(h, maxb, fs) ==
    [heap |-> h \o <<GraphObject, CacheObject(maxb)>>,
     engine |-> [dependency_graph |-> Len(h) + 1, cache |-> Len(h) + 2,
                 frame_size |-> fs, current_audio |-> NoAudio,
                 current_length_frames |-> 0]]

\* The state of engine eng read through self.cache and self.dependency_graph.
EngineAt(h, eng, clock) ==
    [tc |-> [cache |-> h[eng.cache].cache,
             current_size_bytes |-> h[eng.cache].current_size_bytes,
             hits |-> h[eng.cache].hits,
             misses |-> h[eng.cache].misses,
             evictions |-> h[eng.cache].evictions,
             now |-> clock],
     g |-> [graph |-> h[eng.dependency_graph].graph,
            reverse_graph |-> h[eng.dependency_graph].reverse_graph],
     audio |-> eng.current_audio,
     frames |-> eng.current_length_frames]

\* The objects after a call on engine eng ended in state e.
HeapAfter(h, eng, e) ==
    LET h1 == [h EXCEPT ![eng.cache] =
                  [@ EXCEPT !.cache = e.tc.cache,
                            !.current_size_bytes = e.tc.current_size_bytes,
                            !.hits = e.tc.hits,
                            !.misses = e.tc.misses,
                            !.evictions = e.tc.evictions]]
    IN [h1 EXCEPT ![eng.dependency_graph] =
           [@ EXCEPT !.graph = e.g.graph, !.reverse_graph = e.g.reverse_graph]]

EngineAfter(eng, e) ==
    [eng EXCEPT !.current_audio = e.audio, !.current_length_frames = e.frames]

TwoGenerations ==
    {[duration_tenths |-> 10, sample_rate |-> 5],
     [duration_tenths |-> 41, sample_rate |-> 5]}
TwoRegions == {<<0, 1>>, <<17, 17>>}

TwoInit ==
    /\ \E maxb \in EngineCapacities : TemporalCacheInit(maxb, "lru")
    /\ DependencyGraphInit
    /\ \E fs \in EngineFrameSizes : EngineFieldsInit(fs)
    /\ now = 0
    /\ calls = 0
    /\ ret = NoCall
    /\ LET a == NewEngine(<<>>, max_size_bytes, frame_size)
           b == NewEngine(a.heap, max_size_bytes, frame_size)
       IN /\ heap = b.heap
          /\ engines = [A |-> a.engine, B |-> b.engine]

\* What the call on engine name leaves in the variables of B on its own.
AloneAfter(name, alone, clock) ==
    IF name = "B" THEN SetE(alone)
    ELSE /\ now' = clock
         /\ UNCHANGED <<cache, current_size_bytes, hits, misses, evictions,
                        graphVars, current_audio, current_length_frames>>

TwoGenerateFull ==
    /\ calls < MaxCalls
    /\ \E name \in EngineNames, gen \in TwoGenerations, d \in ClockSteps :
          LET eng == engines[name]
              e == generate_full(EngineAt(heap, eng, now), gen.duration_tenths,
                                 gen.sample_rate, calls + 1, eng.frame_size,
                                 heap[eng.cache].max_size_bytes,
                                 heap[eng.cache].eviction_policy, d)
              alone == generate_full(E, gen.duration_tenths, gen.sample_rate,
                                     calls + 1, frame_size, max_size_bytes,
                                     eviction_policy, d)
          IN /\ heap' = HeapAfter(heap, eng, e)
             /\ engines' = [engines EXCEPT ![name] = EngineAfter(eng, e)]
             /\ AloneAfter(name, alone, e.tc.now)
             /\ ret' = [op |-> "generate_full", engine |-> name, outcome |-> "ok",
                        num_samples |-> e.audio.num_samples,
                        first |-> IsNone(eng.current_audio)]
    /\ calls' = calls + 1
    /\ UNCHANGED <<max_size_bytes, eviction_policy, frame_size>>

TwoApplyEdit ==
    /\ calls < MaxCalls
    /\ \E name \in EngineNames, region \in TwoRegions, d \in ClockSteps :
          LET eng == engines[name]
              r == apply_edit(EngineAt(heap, eng, now), region[1], region[2],
                              calls + 1, eng.frame_size,
                              heap[eng.cache].max_size_bytes,
                              heap[eng.cache].eviction_policy, d, {})
              alone == apply_edit(E, region[1], region[2], calls + 1, frame_size,
                                  max_size_bytes, eviction_policy, d, {})
          IN /\ heap' = HeapAfter(heap, eng, r.e)
             /\ engines' = [engines EXCEPT ![name] = EngineAfter(eng, r.e)]
             /\ AloneAfter(name, alone.e, r.e.tc.now)
             /\ ret' = r.ret @@ [engine |-> name]
    /\ calls' = calls + 1
    /\ UNCHANGED <<max_size_bytes, eviction_policy, frame_size>>

TwoNext == TwoGenerateFull \/ TwoApplyEdit

TwoSpec == TwoInit /\ [][TwoNext]_vars

(***************************************************************************)
(* put followed one loop iteration at a time, for every eviction_policy    *)
(* the constructor takes: it stores any string without checking it.        *)
(* While a put is in its loop, ret holds its arguments, the number of      *)
(* entries at the call and the number of iterations that ran _evict_one.   *)
(***************************************************************************)
\* "fifo" stands for any string other than "lru" and "lfu".
PolicyValues == {"lru", "lfu", "fifo"}

PolicyInit ==
    /\ \E maxb \in CacheCapacities, policy \in PolicyValues :
           TemporalCacheInit(maxb, policy)
    /\ DependencyGraphInit
    /\ EngineFieldsInit(2)
    /\ now = 0
    /\ calls = 0
    /\ ret = NoCall
    /\ NoObjects

PolicyFrame == <<objectVars, max_size_bytes, eviction_policy, graphVars, frame_size,
                 current_audio, current_length_frames>>

\* put is called: size_bytes is computed and the while loop is entered.
PutCall ==
    /\ calls < MaxOps
    /\ ret.op # "put_loop"
    /\ \E key \in CacheKeys, activations \in CacheTensors :
          ret' = [op |-> "put_loop", key |-> key, activations |-> activations,
                  size_bytes |-> SizeOf(activations), entries |-> Len(cache),
                  iterations |-> 0]
    /\ calls' = calls + 1
    /\ UNCHANGED <<PolicyFrame, cache, current_size_bytes, hits, misses, evictions,
                   now>>

\* One iteration of the loop: the condition holds, the cache is not empty, and
\* self._evict_one() is called.
PutEvict ==
    /\ ret.op = "put_loop"
    /\ ret.iterations < MaxIterations
    /\ current_size_bytes + ret.size_bytes > max_size_bytes
    /\ Len(cache) > 0
    /\ SetTC(_evict_one(TC, eviction_policy))
    /\ ret' = [ret EXCEPT !.iterations = @ + 1]
    /\ UNCHANGED <<PolicyFrame, calls>>

\* The last iteration finds the cache empty: the put is discarded.
PutDiscard ==
    /\ ret.op = "put_loop"
    /\ current_size_bytes + ret.size_bytes > max_size_bytes
    /\ Len(cache) = 0
    /\ ret' = [op |-> "put", key |-> ret.key, activations |-> ret.activations,
               size_bytes |-> ret.size_bytes, stored |-> FALSE,
               iterations |-> ret.iterations + 1]
    /\ UNCHANGED <<PolicyFrame, calls, cache, current_size_bytes, hits, misses,
                   evictions, now>>

\* The condition of the loop is false: the entry is stored.
PutStore ==
    /\ ret.op = "put_loop"
    /\ current_size_bytes + ret.size_bytes <= max_size_bytes
    /\ \E d \in ClockSteps :
          SetTC(TCput(TC, ret.key, ret.activations, {}, max_size_bytes,
                      eviction_policy, d))
    /\ ret' = [op |-> "put", key |-> ret.key, activations |-> ret.activations,
               size_bytes |-> ret.size_bytes, stored |-> TRUE,
               iterations |-> ret.iterations]
    /\ UNCHANGED <<PolicyFrame, calls>>

PolicyNext == PutCall \/ PutEvict \/ PutDiscard \/ PutStore

PolicySpec == PolicyInit /\ [][PolicyNext]_vars

(***************************************************************************)
(* DependencyGraph on its own: any caller, any edges (branching, cycles    *)
(* and self-loops included) over a small universe of nodes.  The graphs    *)
(* over GraphNodes are finitely many, so the calls are not counted.        *)
(***************************************************************************)
GraphNodes == {frame_id(0), frame_id(1), frame_id(2)}

GraphInit ==
    /\ \E maxb \in CacheCapacities, policy \in CachePolicies :
           TemporalCacheInit(maxb, policy)
    /\ DependencyGraphInit
    /\ EngineFieldsInit(2)
    /\ now = 0
    /\ calls = 0
    /\ ret = NoCall
    /\ NoObjects

GraphFrame == <<cacheVars, max_size_bytes, eviction_policy, now, frame_size,
                current_audio, current_length_frames, calls, objectVars>>

AddDependency ==
    \E node_id \in GraphNodes, depends_on \in GraphNodes :
       /\ SetG(add_dependency(G, node_id, depends_on))
       /\ ret' = [op |-> "add_dependency", node_id |-> node_id,
                  depends_on |-> depends_on]
       /\ UNCHANGED GraphFrame

GetDependencies ==
    \E node_id \in GraphNodes :
       /\ ret' = [op |-> "get_dependencies", node_id |-> node_id,
                  result |-> get_dependencies(G, node_id)]
       /\ UNCHANGED <<graphVars, GraphFrame>>

GetDependents ==
    \E node_id \in GraphNodes :
       /\ ret' = [op |-> "get_dependents", node_id |-> node_id,
                  result |-> get_dependents(G, node_id)]
       /\ UNCHANGED <<graphVars, GraphFrame>>

GetAffectedNodes ==
    \E changed_nodes \in SUBSET GraphNodes :
       /\ ret' = [op |-> "get_affected_nodes", changed_nodes |-> changed_nodes,
                  result |-> get_affected_nodes(G, changed_nodes)]
       /\ UNCHANGED <<graphVars, GraphFrame>>

GraphNext == AddDependency \/ GetDependencies \/ GetDependents \/ GetAffectedNodes

GraphSpec == GraphInit /\ [][GraphNext]_vars

(***************************************************************************)
(* Claims about TemporalCache, checked under CacheSpec.                    *)
(***************************************************************************)

\* C1: after every TemporalCache operation (put, also on a key already present, get,
\* invalidate, clear and the evictions of put) the sizes of the entries held add up
\* to at most max_size_bytes.
C1_CapacityInvariant == SumSizes(cache) <= max_size_bytes

\* C1 witness: a put on a key already present evicted entries, was stored, and the
\* cache is now filled to its capacity.
C1_Witness ==
    /\ ret.op = "put"
    /\ ret.present
    /\ ret.stored
    /\ ret.evicted > 0
    /\ SumSizes(cache) = max_size_bytes

\* C8: a put of a buffer larger than max_size_bytes on a cache that holds entries
\* leaves the entries, their contents and the running size as they were.
C8_OversizePutLeavesCacheUnaffected ==
    [][(/\ ret'.op = "put"
        /\ ret'.size_bytes > max_size_bytes
        /\ Len(cache) > 0)
       => (/\ cache' = cache
           /\ current_size_bytes' = current_size_bytes)]_vars

\* C9: a put of a buffer larger than max_size_bytes on an empty cache leaves zero
\* entries and current_size_bytes = 0 (and returns normally).
C9_OversizePutOnEmptyCache ==
    [][(/\ ret'.op = "put"
        /\ ret'.size_bytes > max_size_bytes
        /\ Len(cache) = 0)
       => (/\ Len(cache') = 0
           /\ current_size_bytes' = 0)]_vars

\* Every entry has the same size, and one more of that size does not fit.
FullOfEqualEntries(size) ==
    /\ Len(cache) > 0
    /\ \A i \in 1..Len(cache) : cache[i].size_bytes = size
    /\ current_size_bytes + size > max_size_bytes

\* C10: under LRU, a put of a new key on a cache full of equal-size entries evicts
\* exactly one entry, one whose timestamp is the smallest; a get that hits makes the
\* entry's timestamp the maximum of all, and the entry is evicted only after every
\* entry not accessed since (so it is not the next one evicted while another entry is
\* held).
C10_LruCorrectness ==
    [][/\ (/\ eviction_policy = "lru"
           /\ ret'.op = "put"
           /\ ~ret'.present
           /\ ret'.size_bytes <= max_size_bytes
           /\ FullOfEqualEntries(ret'.size_bytes))
          => \E v \in CacheKeysOf(cache) :
                /\ \A i \in 1..Len(cache) :
                       EntryOf(cache, v).timestamp <= cache[i].timestamp
                /\ CacheKeysOf(cache') = (CacheKeysOf(cache) \ {v}) \cup {ret'.key}
                /\ evictions' = evictions + 1
       /\ (/\ eviction_policy = "lru"
           /\ ret'.op = "get"
           /\ ret'.hit)
          => /\ \A i \in 1..Len(cache') :
                    cache'[i].timestamp <= EntryOf(cache', ret'.key).timestamp
             /\ Len(cache') >= 2 => lru_key(cache') # ret'.key]_vars

\* C11: invalidate is idempotent: from any cache state and for any key set K,
\* invalidate(K) twice leaves the entries, the running size and the counters that
\* invalidate(K) once leaves; a second call in a row removes nothing, and a call
\* on absent keys only changes nothing.
C11_InvalidateIdempotent ==
    /\ \A K \in SUBSET CacheKeys :
          LET once == TCinvalidate(TC, K)
          IN /\ TCinvalidate(once, K) = once
             /\ CacheKeysOf(once.cache) \cap K = {}
    /\ \A K \in SUBSET (CacheKeys \ CacheKeysOf(cache)) : TCinvalidate(TC, K) = TC
    /\ (ret.op = "invalidate" /\ ret.again) => ret.removed = 0

\* C11 witness: invalidate(K) has run twice in a row; the first call removed an
\* entry, the second none, and another entry is still held.
C11_Witness ==
    /\ ret.op = "invalidate"
    /\ ret.again
    /\ ret.before > 0
    /\ ret.removed = 0
    /\ Len(cache) > 0

\* C12: hits counts the gets on keys present at the call and misses the gets on
\* absent keys (both start at 0 and nothing else moves them); get_stats reports
\* hit_rate = hits / (hits + misses), and exactly 0 when no get has occurred.
C12_HitRate ==
    /\ (hits = 0 /\ misses = 0)
    /\ [][/\ (ret'.op = "get" /\ HasKey(cache, ret'.key))
             => (ret'.hit /\ hits' = hits + 1 /\ misses' = misses)
          /\ (ret'.op = "get" /\ ~HasKey(cache, ret'.key))
             => (~ret'.hit /\ hits' = hits /\ misses' = misses + 1)
          /\ ret'.op # "get" => (hits' = hits /\ misses' = misses)
          /\ ret'.op = "get_stats"
             => /\ ret'.stats.hits = hits
                /\ ret'.stats.misses = misses
                /\ ret'.stats.hit_rate[2] > 0
                /\ ret'.stats.hit_rate[1] * (hits + misses)
                      = hits * ret'.stats.hit_rate[2]
                /\ (hits + misses = 0) => ret'.stats.hit_rate[1] = 0
                /\ (hits + misses > 0)
                   => ret'.stats.hit_rate[2] = hits + misses]_vars

\* C12 witness: get_stats after a get that hit and a get that missed.
C12_Witness ==
    /\ ret.op = "get_stats"
    /\ ret.stats.hits = 1
    /\ ret.stats.misses = 1
    /\ ret.stats.hit_rate = <<1, 2>>

\* C15: clear() removes every entry and sets the running size to zero, and leaves
\* the hits, misses and evictions counters as they were.
C15_ClearKeepsCounters ==
    [][ret'.op = "clear"
       => (/\ cache' = <<>>
           /\ current_size_bytes' = 0
           /\ hits' = hits
           /\ misses' = misses
           /\ evictions' = evictions)]_vars

\* C15 witness: clear() dropped entries of a cache whose three counters had moved.
C15_Witness ==
    /\ ret.op = "clear"
    /\ ret.dropped > 0
    /\ hits + misses > 0
    /\ evictions > 0

(***************************************************************************)
(* Claims about DependencyGraph, checked under GraphSpec.                  *)
(***************************************************************************)

\* C13: after any sequence of add_dependency and get_* calls the forward and the
\* reverse map are mutual inverses: B is among A's dependencies exactly when A is
\* among B's dependents.
C13_MapsAreInverses ==
    /\ \A a \in DOMAIN graph : \A b \in graph[a] :
          b \in DOMAIN reverse_graph /\ a \in reverse_graph[b]
    /\ \A b \in DOMAIN reverse_graph : \A a \in reverse_graph[b] :
          a \in DOMAIN graph /\ b \in graph[a]
    /\ \A a \in GraphNodes, b \in GraphNodes :
          b \in get_dependencies(G, a) <=> a \in get_dependents(G, b)

\* C13 witness: a get_dependents call answered with two dependents, on a graph
\* that holds a self-loop and a node with two dependencies.
C13_Witness ==
    /\ ret.op = "get_dependents"
    /\ Cardinality(ret.result) = 2
    /\ \E a \in DOMAIN graph : a \in graph[a]
    /\ \E a \in DOMAIN graph : Cardinality(graph[a]) = 2

\* The nodes reached from changed_nodes along zero or more reverse edges, by paths.
DependentPaths ==
    UNION {[1..k -> GraphNodes] : k \in 1..Cardinality(GraphNodes)}

ReverseReachable(changed_nodes) ==
    {p[Len(p)] : p \in {q \in DependentPaths :
                          /\ q[1] \in changed_nodes
                          /\ \A i \in 1..(Len(q) - 1) :
                                q[i + 1] \in DictGet(reverse_graph, q[i])}}

\* C20: for every graph (branching and cycles included) and every changed set,
\* get_affected_nodes returns the changed set together with every node reachable
\* from it along reverse edges, transitively, and nothing else; it returns the
\* changed set itself when none of its members has a dependent.
C20_AffectedIsReverseClosure ==
    \A changed_nodes \in SUBSET GraphNodes :
       LET affected == get_affected_nodes(G, changed_nodes)
       IN /\ affected = ReverseReachable(changed_nodes)
          /\ changed_nodes \subseteq affected
          /\ (\A n \in changed_nodes : get_dependents(G, n) = {})
             => affected = changed_nodes

\* C20 witness: get_affected_nodes on one node of a graph with a cycle and a
\* branch returned nodes two reverse edges away and left an upstream node out.
C20_Witness ==
    /\ ret.op = "get_affected_nodes"
    /\ ret.changed_nodes = {frame_id(1)}
    /\ ret.result = {frame_id(1), frame_id(2)}
    /\ frame_id(1) \in DictGet(graph, frame_id(2))
    /\ frame_id(2) \in DictGet(graph, frame_id(1))
    /\ DictGet(reverse_graph, frame_id(0)) = {frame_id(1), frame_id(2)}

(***************************************************************************)
(* Claims about SparseInferenceEngine and the graph it builds, checked     *)
(* under Spec.                                                             *)
(***************************************************************************)
FrameKeys(lo, hi) == {frame_id(i) : i \in lo..hi}

SeqRange(q) == {q[i] : i \in 1..Len(q)}

\* The graph holds exactly the edges frame_i -> frame_(i-1) for 1 <= i < n.
IsChain(n) ==
    /\ DOMAIN graph = FrameKeys(1, n - 1)
    /\ \A i \in 1..(n - 1) : graph[frame_id(i)] = {frame_id(i - 1)}
    /\ DOMAIN reverse_graph = FrameKeys(0, n - 2)
    /\ \A i \in 0..(n - 2) : reverse_graph[frame_id(i)] = {frame_id(i + 1)}

\* C2: within one apply_edit call the frames are recomputed, and put back in the
\* cache, in strictly ascending numeric frame index, whatever the buffer length.
C2_AscendingRecomputeOrder ==
    ret.op = "apply_edit"
    => \A i, j \in 1..Len(ret.order) : i < j => ret.order[i] < ret.order[j]

\* C3: after generate_full produced N frames, an apply_edit whose region starts in
\* frame s and ends inside the buffer recomputes exactly the frames s .. N-1 and
\* reports frames_recomputed = N - s, frames_total = N, recompute_ratio = (N - s)/N.
C3_EditRecomputesSuffix ==
    (/\ ret.op = "apply_edit"
     /\ ~IsNone(current_audio)
     /\ 0 <= ret.region[1]
     /\ ret.region[1] <= ret.region[2]
     /\ ret.region[2] < current_audio.num_samples)
    => /\ ret.outcome = "ok"
       /\ SeqRange(ret.order) = ret.start_frame..(current_length_frames - 1)
       /\ ret.metrics.frames_recomputed = current_length_frames - ret.start_frame
       /\ ret.metrics.frames_total = current_length_frames
       /\ ret.metrics.recompute_ratio
             = <<current_length_frames - ret.start_frame, current_length_frames>>

\* C4: generate_full as the first call on an engine whose cache has room for all
\* frames leaves num_frames = floor(num_samples / frame_size), the cache keys
\* frame_0 .. frame_(num_frames-1), the edges frame_i -> frame_(i-1) for
\* 1 <= i < num_frames and no others (frame_0 depends on nothing), and the engine's
\* frame count equal to num_frames; 441000 samples in frames of 512 give 861.
C4_GenerateFullPopulates ==
    /\ NumFrames(NumSamples(100, 44100), 512) = 861
    /\ (/\ ret.op = "generate_full"
        /\ calls = 1
        /\ max_size_bytes >= current_length_frames * frame_size * ElementSize)
       => /\ current_length_frames * frame_size <= ret.num_samples
          /\ ret.num_samples < (current_length_frames + 1) * frame_size
          /\ Len(current_audio.frames) = current_length_frames
          /\ Len(cache) = current_length_frames
          /\ CacheKeysOf(cache) = FrameKeys(0, current_length_frames - 1)
          /\ IsChain(current_length_frames)
          /\ get_dependencies(G, frame_id(0)) = {}

\* C4 witness: a first generate_full of 25 samples (12 frames of 2 and one sample
\* over) on an engine whose cache holds them all.
C4_Witness ==
    /\ ret.op = "generate_full"
    /\ calls = 1
    /\ ret.num_samples = 25
    /\ current_length_frames = 12
    /\ Len(cache) = 12

\* C5: on the chain graph frame_i -> frame_(i-1), i = 1..N-1,
\* get_affected_nodes({frame_k}) is exactly {frame_k, ..., frame_(N-1)} for every
\* 0 <= k < N.
C5_AffectedNodesOfChain ==
    \A n \in 1..(Cardinality(DOMAIN graph) + 1) :
        IsChain(n)
        => \A k \in 0..(n - 1) :
               get_affected_nodes(G, {frame_id(k)}) = FrameKeys(k, n - 1)

\* C5 witness: the chain of 10 frames, on which an edit changed frame_8 alone and
\* the closure it got was {frame_8, frame_9}; frame_3 gives frame_3 .. frame_9.
C5_Witness ==
    /\ IsChain(10)
    /\ ret.op = "apply_edit"
    /\ ret.changed_frames = {frame_id(8)}
    /\ ret.affected_frames = {frame_id(8), frame_id(9)}
    /\ get_affected_nodes(G, {frame_id(3)}) = FrameKeys(3, 9)
    /\ get_affected_nodes(G, {frame_id(9)}) = {frame_id(9)}

\* C6: apply_edit on an engine on which generate_full was never called ends in an
\* error and changes nothing: cache entries, running size, counters, graph and the
\* absent buffer are as before.
C6_EditBeforeGenerateChangesNothing ==
    [][(/\ ret'.op = "apply_edit"
        /\ IsNone(current_audio))
       => (/\ ret'.outcome # "ok"
           /\ cache' = cache
           /\ current_size_bytes' = current_size_bytes
           /\ hits' = hits
           /\ misses' = misses
           /\ evictions' = evictions
           /\ graph' = graph
           /\ reverse_graph' = reverse_graph
           /\ current_audio' = current_audio)]_vars

\* C7: an edit whose region ends beyond the last frame (end frame >= frame count N)
\* is clamped: the call completes, every frame it recomputes and caches has an index
\* in 0 .. N-1, and frames_recomputed <= frames_total.
C7_EditBeyondEndIsClamped ==
    (/\ ret.op = "apply_edit"
     /\ ~IsNone(current_audio)
     /\ 0 <= ret.start_frame
     /\ ret.start_frame <= ret.end_frame
     /\ ret.end_frame >= current_length_frames)
    => /\ ret.outcome = "ok"
       /\ \A i \in 1..Len(ret.order) : ret.order[i] < current_length_frames
       /\ ret.metrics.frames_recomputed <= ret.metrics.frames_total

\* C14: apply_edit (and the cache invalidation inside it) never changes the
\* dependency graph: the forward and the reverse map are the same before and after
\* every apply_edit call, also when the region names frames that are not graph
\* nodes; only generate_full adds edges, and no operation removes one.
C14_EditLeavesGraphUnchanged ==
    [][/\ ret'.op # "generate_full"
          => (graph' = graph /\ reverse_graph' = reverse_graph)
       /\ \A a \in DOMAIN graph : a \in DOMAIN graph' /\ graph[a] \subseteq graph'[a]
       /\ \A b \in DOMAIN reverse_graph :
             b \in DOMAIN reverse_graph' /\ reverse_graph[b] \subseteq reverse_graph'[b]
      ]_vars

\* C14 witness: an apply_edit on a generated buffer looked up and recomputed a
\* frame that is no node of the graph.
C14_Witness ==
    /\ ret.op = "apply_edit"
    /\ graph # EmptyDict
    /\ Len(ret.order) > 0
    /\ \E f \in ret.affected_frames :
          /\ f \notin DOMAIN graph
          /\ f \notin DOMAIN reverse_graph
          /\ frame_idx(f) \in SeqRange(ret.order)

\* C17: after generate_full, an apply_edit whose region lies inside the buffer
\* always completes without error and writes every affected frame into the audio
\* buffer, whatever the cache capacity (also one smaller than a single frame).
C17_InBoundsEditCompletes ==
    (/\ ret.op = "apply_edit"
     /\ ~IsNone(current_audio)
     /\ 0 <= ret.region[1]
     /\ ret.region[1] <= ret.region[2]
     /\ ret.region[2] < current_audio.num_samples)
    => /\ ret.outcome = "ok"
       /\ \A f \in ret.affected_frames :
             /\ frame_idx(f) < Len(current_audio.frames)
             /\ current_audio.frames[frame_idx(f) + 1]
                   = [call |-> calls, frame |-> frame_idx(f)]

\* C18: when the generation step fails while apply_edit recomputes affected frame k
\* (cache large enough for all frames), every affected frame with index < k is in
\* the cache and written into the buffer, and every affected frame with index >= k
\* is absent from the cache with its pre-edit samples still in the buffer.
C18_PartialFailureState ==
    (/\ ret.op = "apply_edit"
     /\ ret.outcome = "GenerationError"
     /\ ~IsNone(current_audio)
     /\ max_size_bytes >= current_length_frames * frame_size * ElementSize)
    => \A f \in ret.affected_frames :
          LET idx == frame_idx(f)
          IN /\ idx < ret.failed_at
                => /\ HasKey(cache, f)
                   /\ idx < Len(current_audio.frames)
                   /\ current_audio.frames[idx + 1] = [call |-> calls, frame |-> idx]
             /\ idx >= ret.failed_at
                => /\ ~HasKey(cache, f)
                   /\ idx < Len(current_audio.frames)
                      => current_audio.frames[idx + 1]
                            = ret.audio_before.frames[idx + 1]

\* C19: a cached activation buffer is owned by its cache entry alone: no entry
\* stored by generate_full or apply_edit shares storage with the engine's audio
\* buffer (base names the buffer a tensor is a view of, 0 for a tensor of its own).
C19_EntriesOwnTheirStorage ==
    \A i \in 1..Len(cache) : cache[i].activations.base = 0

(***************************************************************************)
(* Claims about two engines, checked under TwoSpec.                        *)
(***************************************************************************)

\* C16: two SparseInferenceEngine instances share no mutable state: under any
\* interleaving of generate_full and apply_edit calls on A and B, the cache entries,
\* counters, graph, buffer and frame count of B are what they would be had A's
\* calls not happened, and the two engines hold different objects.
C16_EnginesAreIndependent ==
    /\ EngineAt(heap, engines.B, now) = E
    /\ heap[engines.B.cache].max_size_bytes = max_size_bytes
    /\ engines.B.frame_size = frame_size
    /\ engines.A.cache # engines.B.cache
    /\ engines.A.dependency_graph # engines.B.dependency_graph

\* C16 witness: B was generated, then A was generated, then B was edited; both
\* caches hold entries and A's objects differ from B's.
C16_Witness ==
    /\ calls = 3
    /\ ret.op = "apply_edit"
    /\ ret.engine = "B"
    /\ ret.outcome = "ok"
    /\ engines.A.current_audio.id = 2
    /\ engines.B.current_audio.id = 1
    /\ Len(heap[engines.A.cache].cache) > 0
    /\ Len(cache) > 0
    /\ heap[engines.A.cache].cache # cache
    /\ heap[engines.A.dependency_graph].graph # graph

(***************************************************************************)
(* Further claims about DependencyGraph, checked under GraphSpec.          *)
(***************************************************************************)

\* C21: get_affected_nodes terminates on every finite graph, cycles and self-loops
\* included, and takes each node off the queue at most once: the nodes popped are
\* pairwise different, they are the affected set, and there are at most as many
\* pops as nodes.
C21_EachNodeVisitedOnce ==
    \A changed_nodes \in SUBSET GraphNodes :
       LET r == BfsLoop(G, changed_nodes, SortedKeys(changed_nodes), <<>>)
       IN /\ \A i, j \in 1..Len(r.popped) : i # j => r.popped[i] # r.popped[j]
          /\ SeqRange(r.popped) = r.affected
          /\ Len(r.popped) <= Cardinality(GraphNodes)

\* C21 witness: get_affected_nodes of one node returned all three nodes of a graph
\* that holds a self-loop and a cycle through all nodes.
C21_Witness ==
    /\ ret.op = "get_affected_nodes"
    /\ ret.changed_nodes = {frame_id(0)}
    /\ ret.result = GraphNodes
    /\ frame_id(0) \in DictGet(reverse_graph, frame_id(0))
    /\ frame_id(1) \in DictGet(reverse_graph, frame_id(0))
    /\ frame_id(2) \in DictGet(reverse_graph, frame_id(1))
    /\ frame_id(0) \in DictGet(reverse_graph, frame_id(2))

(***************************************************************************)
(* Further claims about TemporalCache, checked under CacheSpec.            *)
(***************************************************************************)

\* C22: a put whose buffer is not larger than max_size_bytes always ends with the
\* key in the cache holding the new activations, after any earlier puts (also on
\* keys already present), gets, invalidates and clears; a put is discarded only
\* when the buffer alone is larger than the whole capacity.
C22_FittingPutIsStored ==
    [][(ret'.op = "put" /\ ret'.size_bytes <= max_size_bytes)
       => (/\ ret'.stored
           /\ HasKey(cache', ret'.key)
           /\ EntryOf(cache', ret'.key).activations = ret'.activations)]_vars

\* The evictions of one put, replayed: each removes an entry whose hit_count is
\* minimal among the entries present and adds one to the evictions counter.
RECURSIVE EvictionsAreLfu(_, _, _)
EvictionsAreLfu(st, size_bytes, maxb) ==
    IF st.current_size_bytes + size_bytes > maxb /\ Len(st.cache) > 0
    THEN LET st1 == _evict_one(st, "lfu")
             gone == CacheKeysOf(st.cache) \ CacheKeysOf(st1.cache)
         IN /\ Cardinality(gone) = 1
            /\ \A k \in gone : \A i \in 1..Len(st.cache) :
                  EntryOf(st.cache, k).hit_count <= st.cache[i].hit_count
            /\ Len(st1.cache) = Len(st.cache) - 1
            /\ st1.evictions = st.evictions + 1
            /\ EvictionsAreLfu(st1, size_bytes, maxb)
    ELSE TRUE

\* C26: under the LFU policy each eviction removes an entry whose hit_count is
\* minimal among all entries present, and adds exactly one to the evictions
\* counter per removed entry; hit_count counts the successful gets on an entry
\* since it was last put.
C26_LfuEvictsLeastHit ==
    [][eviction_policy = "lfu"
       => /\ ret'.op = "put"
             => /\ EvictionsAreLfu(TC, ret'.size_bytes, max_size_bytes)
                /\ evictions' = evictions + ret'.evicted
                /\ ret'.stored => EntryOf(cache', ret'.key).hit_count = 0
                /\ \A i \in 1..Len(cache') :
                      (cache'[i].key # ret'.key /\ HasKey(cache, cache'[i].key))
                      => cache'[i].hit_count = EntryOf(cache, cache'[i].key).hit_count
          /\ ret'.op = "get"
             => /\ evictions' = evictions
                /\ \A i \in 1..Len(cache) :
                      cache'[i].hit_count
                         = cache[i].hit_count
                           + (IF cache[i].key = ret'.key THEN 1 ELSE 0)
          /\ ret'.op \in {"invalidate", "clear", "get_stats"}
             => evictions' = evictions]_vars

\* C26 witness: under LFU a put made room by evicting the entry never read and kept
\* the older entry (first in the dict, stale timestamp) that a get had hit.
C26_Witness ==
    /\ eviction_policy = "lfu"
    /\ ret.op = "put"
    /\ ret.evicted = 1
    /\ ret.stored
    /\ Len(cache) = 2
    /\ cache[1].hit_count = 1
    /\ cache[1].timestamp < cache[2].timestamp
    /\ cache[2].key = ret.key
    /\ evictions = 1

\* C27: after any sequence of put (also on a key already present), get, invalidate,
\* clear and evictions, current_size_bytes equals the sum of size_bytes of the
\* entries in the cache, and it is never negative.
C27_RunningSizeIsExact ==
    /\ current_size_bytes = SumSizes(cache)
    /\ current_size_bytes >= 0

(***************************************************************************)
(* Further claims about SparseInferenceEngine, checked under Spec.         *)
(***************************************************************************)

\* The call that ends in this state is an apply_edit on a generated buffer whose
\* region lies inside the buffer.
InBoundsEdit(r, audio) ==
    /\ r.op = "apply_edit"
    /\ ~IsNone(audio)
    /\ 0 <= r.region[1]
    /\ r.region[1] <= r.region[2]
    /\ r.region[2] < audio.num_samples

\* The cache has room for all frames of the buffer.
LargeEnough == max_size_bytes >= current_length_frames * frame_size * ElementSize

\* C23: in apply_edit after generate_full, with a cache large enough for all frames,
\* every recomputed frame i > 0 finds its dependency frame_(i-1) in the cache at
\* the moment it is recomputed: no cache miss is counted during the edit, for
\* every frame count.
C23_EditCountsNoMiss ==
    [][(InBoundsEdit(ret', current_audio) /\ LargeEnough) => misses' = misses]_vars

\* C24: after an in-bounds apply_edit completes on a cache large enough for all
\* frames, every affected frame is in the cache again with the dependency set
\* get_dependencies gives for it, the cache keys are exactly frame_0 .. frame_(N-1),
\* and no eviction occurred during the edit.
C24_EditRestoresCache ==
    [][(InBoundsEdit(ret', current_audio) /\ LargeEnough /\ ret'.outcome = "ok")
       => (/\ \A f \in ret'.affected_frames :
                 /\ HasKey(cache', f)
                 /\ EntryOf(cache', f).dependencies = DictGet(graph', f)
           /\ CacheKeysOf(cache') = FrameKeys(0, current_length_frames' - 1)
           /\ evictions' = evictions)]_vars

C28_GenerateFullLeavesNoStaleState ==
    ret.op = "generate_full"
    => /\ \A i \in 1..Len(cache) :
             /\ frame_idx(cache[i].key) < current_length_frames
             /\ cache[i].activations.base = current_audio.id
             /\ cache[i].activations.data
                   = current_audio.frames[frame_idx(cache[i].key) + 1]
       /\ \A a \in DOMAIN graph :
             /\ frame_idx(a) < current_length_frames
             /\ \A b \in graph[a] : frame_idx(b) < current_length_frames
       /\ \A b \in DOMAIN reverse_graph :
             /\ frame_idx(b) < current_length_frames
             /\ \A a \in reverse_graph[b] : frame_idx(a) < current_length_frames

\* C30: an in-bounds apply_edit starting in frame s leaves unchanged the samples of
\* every frame with index < s, the trailing samples beyond the last whole frame, and
\* the activations, dependency set and size of every cache entry frame_i with i < s.
C30_EditLeavesEarlierFrames ==
    [][InBoundsEdit(ret', current_audio)
       => (/\ current_audio'.id = current_audio.id
           /\ current_audio'.num_samples = current_audio.num_samples
           /\ Len(current_audio'.frames) = Len(current_audio.frames)
           /\ \A i \in 0..(ret'.start_frame - 1) :
                 /\ i < Len(current_audio.frames)
                    => current_audio'.frames[i + 1] = current_audio.frames[i + 1]
                 /\ HasKey(cache, frame_id(i))
                    => /\ HasKey(cache', frame_id(i))
                       /\ EntryOf(cache', frame_id(i)).activations
                             = EntryOf(cache, frame_id(i)).activations
                       /\ EntryOf(cache', frame_id(i)).dependencies
                             = EntryOf(cache, frame_id(i)).dependencies
                       /\ EntryOf(cache', frame_id(i)).size_bytes
                             = EntryOf(cache, frame_id(i)).size_bytes)]_vars

(***************************************************************************)
(* Claims about put under any eviction policy, checked under PolicySpec.   *)
(***************************************************************************)

\* C29: put terminates for every eviction_policy value the constructor accepts:
\* each iteration of the eviction loop that does not exit removes one entry, so the
\* loop runs _evict_one at most as many times as there were entries at the call
\* (and at most once more to exit).
C29_PutTerminates ==
    ret.op = "put_loop"
    => /\ ret.iterations <= ret.entries
       /\ Len(cache) = ret.entries - ret.iterations

====
